---- MODULE Spec2Model ----
(***************************************************************************)
(* A model of the rag-chatbot repository.                                  *)
(*                                                                         *)
(*   src/app.py    - the Streamlit chat page.  The script is re-run from   *)
(*                   top to bottom on every page event; st.session_state   *)
(*                   survives the runs of one session.  A run is modelled  *)
(*                   as the walk of pc through the script, the blocking    *)
(*                   provider calls inside chain.invoke being the steps    *)
(*                   that can raise.  A run is taken to go on to its end   *)
(*                   (or to its exception) before the next page event.     *)
(*   src/ingest.py - the one-shot ingestion script: split the document,    *)
(*                   add the chunks to the persisted Chroma collection.    *)
(*                                                                         *)
(* Spec is the chat session, SpecIngest the ingestion script.              *)
(***************************************************************************)
EXTENDS Integers, Sequences, FiniteSets, TLC

VARIABLES
    \* ---- src/app.py: configuration sources of OPENAI_API_KEY
    secretsKey,     \* st.secrets["OPENAI_API_KEY"]: "none" | "empty" | "key"
    envKey,         \* os.environ["OPENAI_API_KEY"]
    dotenvKey,      \* the entry of the .env file read by load_dotenv()
    api_key,        \* the script's api_key of the current run
    \* ---- src/app.py: st.session_state
    hasMessages,    \* "messages" in st.session_state
    messages,       \* st.session_state.messages (the displayed history)
    hasChain,       \* "chain" in st.session_state
    chainId,        \* identity of the chain object: number of chains created
    storeOpens,     \* number of times the Chroma store was opened
    memory,         \* the chain's ConversationBufferMemory.chat_memory
    \* ---- src/app.py: the script run
    pc,             \* position of the run ("Idle": no run in progress)
    prompt,         \* value returned by st.chat_input in this run
    context,        \* chat_history loaded from memory for this invoke
    answer,         \* response["answer"]
    outcome,        \* how the last run ended
    errorShown,     \* st.error was called in the last run
    stages,         \* the stages the query of this run went through
    callsInRun,     \* provider calls made in this run
    \* ---- history variables (observers only, never read by the actions)
    nQuestions,     \* questions accepted so far
    nAnswered,      \* queries that reached Answered
    memBefore,      \* memory at the start of the run
    msgsBefore,     \* messages at the start of the run
    chainBefore,    \* chainId at the start of the run
    storeBefore,    \* storeOpens at the start of the run
    runKeyMissing,  \* no non-empty key was available at the start of the run
    prevFailed,     \* the latest query turn ended Failed
    memAtFail,      \* memory before that failed turn
    chainAtFail,    \* chainId before that failed turn
    \* ---- src/ingest.py
    doc,            \* text of data/sample.txt
    chunk_size,     \* CharacterTextSplitter chunk_size
    chunk_overlap,  \* CharacterTextSplitter chunk_overlap
    chunks,         \* result of the latest split_documents
    index,          \* entries of the persisted collection ./chroma_db
    nextId,         \* source of fresh entry ids (uuid4)
    ingestRuns,     \* number of completed ingest_documents() calls
    indexAfterFirst \* history: the index after the first run

appVars == <<secretsKey, envKey, dotenvKey, api_key, hasMessages, messages,
             hasChain, chainId, storeOpens, memory, pc, prompt, context, answer,
             outcome, errorShown, stages, callsInRun, nQuestions, nAnswered,
             memBefore, msgsBefore, chainBefore, storeBefore, runKeyMissing,
             prevFailed, memAtFail, chainAtFail>>

ingestVars == <<doc, chunk_size, chunk_overlap, chunks, index, nextId,
                ingestRuns, indexAfterFirst>>

vars == <<appVars, ingestVars>>

----------------------------------------------------------------------------
(* Bounds and input domains *)

MaxQuestions == 3

Questions == {"q1", "q2"}

Answers == {"a1", "a2"}

KeyValues == {"none", "empty", "key"}

None == "None"

\* what st.chat_input can hand to the script: nothing, "" or a question
PromptValues == {None, ""} \cup Questions

----------------------------------------------------------------------------
(* Helpers *)

User(q) == [role |-> "user", content |-> q]

Assistant(a) == [role |-> "assistant", content |-> a]

IsPrefix(s, t) == Len(s) <= Len(t) /\ SubSeq(t, 1, Len(s)) = s

\* Python truthiness of the value of st.chat_input (the walrus guard)
TruthyNotNone(p) == p # None

Truthy(p) == p # None /\ p # ""

\* "not api_key or api_key == ''"
KeyMissingOnlyNone(k) == k = "none"

KeyMissing(k) == k = "none" \/ k = "empty"

\* memory.save_context(inputs, outputs): HumanMessage(question), AIMessage(answer)
SaveContextAssistantFirst(mem, q, a) == mem \o <<Assistant(a), User(q)>>

SaveContext(mem, q, a) == mem \o <<User(q), Assistant(a)>>

\* ConversationalRetrievalChain._call rephrases the question with the llm
\* first when the chat history is not empty
NeverCondense(history) == FALSE

NeedsCondense(history) == history # <<>>

\* a non-empty key can be had from the secrets store or the environment
KeyAvailable == secretsKey = "key" \/ envKey = "key" \/ dotenvKey = "key"

----------------------------------------------------------------------------
(* src/app.py *)

AppInit ==
    /\ secretsKey \in KeyValues
    /\ envKey \in KeyValues
    /\ dotenvKey \in KeyValues
    /\ api_key = "none"
    /\ hasMessages = FALSE
    /\ messages = <<>>
    /\ hasChain = FALSE
    /\ chainId = 0
    /\ storeOpens = 0
    /\ memory = <<>>
    /\ pc = "Idle"
    /\ prompt = None
    /\ context = <<>>
    /\ answer = None
    /\ outcome = "none"
    /\ errorShown = FALSE
    /\ stages = <<>>
    /\ callsInRun = 0
    /\ nQuestions = 0
    /\ nAnswered = 0
    /\ memBefore = <<>>
    /\ msgsBefore = <<>>
    /\ chainBefore = 0
    /\ storeBefore = 0
    /\ runKeyMissing = FALSE
    /\ prevFailed = FALSE
    /\ memAtFail = <<>>
    /\ chainAtFail = 0

\* a page event starts a run of the script; p is what st.chat_input will return
Rerun(p) ==
    /\ pc = "Idle"
    /\ Truthy(p) => nQuestions < MaxQuestions
    /\ pc' = "LoadKey"
    /\ prompt' = p
    /\ outcome' = "running"
    /\ errorShown' = FALSE
    /\ stages' = <<>>
    /\ callsInRun' = 0
    /\ memBefore' = memory
    /\ msgsBefore' = messages
    /\ chainBefore' = chainId
    /\ storeBefore' = storeOpens
    /\ runKeyMissing' = ~KeyAvailable
    /\ UNCHANGED ingestVars
    /\ UNCHANGED <<secretsKey, envKey, dotenvKey, api_key, hasMessages, messages,
                   hasChain, chainId, storeOpens, memory, context, answer,
                   nQuestions, nAnswered, prevFailed, memAtFail, chainAtFail>>

\* lines 26-33: secrets first; on KeyError load_dotenv() and os.getenv
LoadKey ==
    /\ pc = "LoadKey"
    /\ IF secretsKey # "none"
         THEN /\ api_key' = secretsKey
              /\ envKey' = secretsKey
         ELSE \* load_dotenv() never overrides a variable that is already set
              /\ envKey' = IF envKey = "none" THEN dotenvKey ELSE envKey
              /\ api_key' = envKey'
    /\ pc' = "CheckKey"
    /\ UNCHANGED ingestVars
    /\ UNCHANGED <<secretsKey, dotenvKey, hasMessages, messages, hasChain, chainId,
                   storeOpens, memory, prompt, context, answer, outcome, errorShown,
                   stages, callsInRun, nQuestions, nAnswered, memBefore, msgsBefore,
                   chainBefore, storeBefore, runKeyMissing, prevFailed, memAtFail,
                   chainAtFail>>

\* lines 36-38: st.error and st.stop when there is no key
CheckKey ==
    /\ pc = "CheckKey"
    /\ IF KeyMissing(api_key)
         THEN /\ errorShown' = TRUE
              /\ outcome' = "ConfigurationError"
              /\ pc' = "Idle"
         ELSE /\ pc' = "InitSession"
              /\ UNCHANGED <<errorShown, outcome>>
    /\ UNCHANGED ingestVars
    /\ UNCHANGED <<secretsKey, envKey, dotenvKey, api_key, hasMessages, messages,
                   hasChain, chainId, storeOpens, memory, prompt, context, answer,
                   stages, callsInRun, nQuestions, nAnswered, memBefore, msgsBefore,
                   chainBefore, storeBefore, runKeyMissing, prevFailed, memAtFail,
                   chainAtFail>>

\* a run that builds a new chain whether or not the session has one
InitSessionAlways ==
    /\ pc = "InitSession"
    /\ hasMessages' = TRUE
    /\ messages' = IF hasMessages THEN messages ELSE <<>>
    /\ hasChain' = TRUE
    /\ storeOpens' = storeOpens + 1
    /\ memory' = <<>>
    /\ chainId' = chainId + 1
    /\ pc' = "ChatInput"
    /\ UNCHANGED ingestVars
    /\ UNCHANGED <<secretsKey, envKey, dotenvKey, api_key, prompt, context, answer,
                   outcome, errorShown, stages, callsInRun, nQuestions, nAnswered,
                   memBefore, msgsBefore, chainBefore, storeBefore, runKeyMissing,
                   prevFailed, memAtFail, chainAtFail>>

\* lines 62-133 (and the display loop 152-155, which changes nothing):
\* messages and the chain are created only when the session has none
InitSession ==
    /\ pc = "InitSession"
    /\ hasMessages' = TRUE
    /\ messages' = IF hasMessages THEN messages ELSE <<>>
    /\ hasChain' = TRUE
    /\ IF hasChain
         THEN UNCHANGED <<storeOpens, memory, chainId>>
         ELSE /\ storeOpens' = storeOpens + 1
              /\ memory' = <<>>
              /\ chainId' = chainId + 1
    /\ pc' = "ChatInput"
    /\ UNCHANGED ingestVars
    /\ UNCHANGED <<secretsKey, envKey, dotenvKey, api_key, prompt, context, answer,
                   outcome, errorShown, stages, callsInRun, nQuestions, nAnswered,
                   memBefore, msgsBefore, chainBefore, storeBefore, runKeyMissing,
                   prevFailed, memAtFail, chainAtFail>>

\* lines 173-187: the walrus guard; an accepted question is appended to the
\* displayed history at once, then chain.invoke is entered
ChatInput ==
    /\ pc = "ChatInput"
    /\ IF Truthy(prompt)
         THEN /\ messages' = Append(messages, User(prompt))
              /\ nQuestions' = nQuestions + 1
              /\ pc' = "PrepInputs"
              /\ UNCHANGED outcome
         ELSE /\ pc' = "Idle"
              /\ outcome' = "NoQuestion"
              /\ UNCHANGED <<messages, nQuestions>>
    /\ UNCHANGED ingestVars
    /\ UNCHANGED <<secretsKey, envKey, dotenvKey, api_key, hasMessages, hasChain,
                   chainId, storeOpens, memory, prompt, context, answer, errorShown,
                   stages, callsInRun, nAnswered, memBefore, msgsBefore, chainBefore,
                   storeBefore, runKeyMissing, prevFailed, memAtFail, chainAtFail>>

\* line 205, chain.invoke: prep_inputs loads chat_history from the memory
PrepInputs ==
    /\ pc = "PrepInputs"
    /\ context' = memory
    /\ pc' = IF NeedsCondense(memory) THEN "CondenseCall" ELSE "Embedding"
    /\ stages' = <<pc'>>
    /\ UNCHANGED ingestVars
    /\ UNCHANGED <<secretsKey, envKey, dotenvKey, api_key, hasMessages, messages,
                   hasChain, chainId, storeOpens, memory, prompt, answer, outcome,
                   errorShown, callsInRun, nQuestions, nAnswered, memBefore,
                   msgsBefore, chainBefore, storeBefore, runKeyMissing, prevFailed,
                   memAtFail, chainAtFail>>

\* chain.invoke with a non-empty chat history: the question generator's llm
\* call rephrases the question before anything is retrieved
CondenseCall ==
    /\ pc = "CondenseCall"
    /\ pc' = "Embedding"
    /\ stages' = Append(stages, "Embedding")
    /\ callsInRun' = callsInRun + 1
    /\ UNCHANGED ingestVars
    /\ UNCHANGED <<secretsKey, envKey, dotenvKey, api_key, hasMessages, messages,
                   hasChain, chainId, storeOpens, memory, prompt, context, answer,
                   outcome, errorShown, nQuestions, nAnswered, memBefore, msgsBefore,
                   chainBefore, storeBefore, runKeyMissing, prevFailed, memAtFail,
                   chainAtFail>>

\* the retriever embeds the (rephrased) question: a provider call
Embedding ==
    /\ pc = "Embedding"
    /\ pc' = "Retrieving"
    /\ stages' = Append(stages, "Retrieving")
    /\ callsInRun' = callsInRun + 1
    /\ UNCHANGED ingestVars
    /\ UNCHANGED <<secretsKey, envKey, dotenvKey, api_key, hasMessages, messages,
                   hasChain, chainId, storeOpens, memory, prompt, context, answer,
                   outcome, errorShown, nQuestions, nAnswered, memBefore, msgsBefore,
                   chainBefore, storeBefore, runKeyMissing, prevFailed, memAtFail,
                   chainAtFail>>

\* the retriever searches the store for the k=2 nearest chunks
Retrieving ==
    /\ pc = "Retrieving"
    /\ pc' = "Composing"
    /\ stages' = Append(stages, "Composing")
    /\ callsInRun' = callsInRun + 0
    /\ UNCHANGED ingestVars
    /\ UNCHANGED <<secretsKey, envKey, dotenvKey, api_key, hasMessages, messages,
                   hasChain, chainId, storeOpens, memory, prompt, context, answer,
                   outcome, errorShown, nQuestions, nAnswered, memBefore, msgsBefore,
                   chainBefore, storeBefore, runKeyMissing, prevFailed, memAtFail,
                   chainAtFail>>

\* the combine-documents chain composes the prompt from the chunks, the
\* history and the question
Composing ==
    /\ pc = "Composing"
    /\ pc' = "ModelCall"
    /\ stages' = Append(stages, "ModelCall")
    /\ callsInRun' = callsInRun + 0
    /\ UNCHANGED ingestVars
    /\ UNCHANGED <<secretsKey, envKey, dotenvKey, api_key, hasMessages, messages,
                   hasChain, chainId, storeOpens, memory, prompt, context, answer,
                   outcome, errorShown, nQuestions, nAnswered, memBefore, msgsBefore,
                   chainBefore, storeBefore, runKeyMissing, prevFailed, memAtFail,
                   chainAtFail>>

\* the answering llm call returns; prep_outputs saves the turn to the memory
\* and chain.invoke returns the response
ModelCall ==
    /\ pc = "ModelCall"
    /\ \E a \in Answers :
         /\ answer' = a
         /\ memory' = SaveContext(memory, prompt, a)
    /\ nAnswered' = nAnswered + 1
    /\ callsInRun' = callsInRun + 1
    /\ prevFailed' = FALSE
    /\ stages' = Append(stages, "Answered")
    /\ pc' = "Answered"
    /\ UNCHANGED ingestVars
    /\ UNCHANGED <<secretsKey, envKey, dotenvKey, api_key, hasMessages, messages,
                   hasChain, chainId, storeOpens, prompt, context, outcome,
                   errorShown, nQuestions, memBefore, msgsBefore, chainBefore,
                   storeBefore, runKeyMissing, memAtFail, chainAtFail>>

\* lines 221-235: the answer is written and appended to the displayed history
Answered ==
    /\ pc = "Answered"
    /\ messages' = Append(messages, Assistant(answer))
    /\ outcome' = "Answered"
    /\ pc' = "Idle"
    /\ UNCHANGED ingestVars
    /\ UNCHANGED <<secretsKey, envKey, dotenvKey, api_key, hasMessages, hasChain,
                   chainId, storeOpens, memory, prompt, context, answer, errorShown,
                   stages, callsInRun, nQuestions, nAnswered, memBefore, msgsBefore,
                   chainBefore, storeBefore, runKeyMissing, prevFailed, memAtFail,
                   chainAtFail>>

\* the steps of chain.invoke that can raise: the three calls to the provider
\* (ProviderError) and the query of the local store
RaisingSteps == {"CondenseCall", "Embedding", "Retrieving", "ModelCall"}

\* the provider calls made by a step
ProviderCalls(step) == IF step = "Retrieving" THEN 0 ELSE 1

\* a provider call that saves the question to the memory before it raises
ProviderErrorSavesUserTurn ==
    /\ pc \in RaisingSteps
    /\ memory' = Append(memory, User(prompt))
    /\ callsInRun' = callsInRun + ProviderCalls(pc)
    /\ stages' = Append(stages, "Failed")
    /\ outcome' = "Failed"
    /\ prevFailed' = TRUE
    /\ memAtFail' = memBefore
    /\ chainAtFail' = chainId
    /\ pc' = "Idle"
    /\ UNCHANGED ingestVars
    /\ UNCHANGED <<secretsKey, envKey, dotenvKey, api_key, hasMessages, messages,
                   hasChain, chainId, storeOpens, prompt, context, answer,
                   errorShown, nQuestions, nAnswered, memBefore, msgsBefore,
                   chainBefore, storeBefore, runKeyMissing>>

\* a provider error that takes the chain out of the session state
ProviderErrorDropsChain ==
    /\ pc \in RaisingSteps
    /\ hasChain' = FALSE
    /\ callsInRun' = callsInRun + ProviderCalls(pc)
    /\ stages' = Append(stages, "Failed")
    /\ outcome' = "Failed"
    /\ prevFailed' = TRUE
    /\ memAtFail' = memBefore
    /\ chainAtFail' = chainId
    /\ pc' = "Idle"
    /\ UNCHANGED ingestVars
    /\ UNCHANGED <<secretsKey, envKey, dotenvKey, api_key, hasMessages, messages,
                   chainId, storeOpens, memory, prompt, context, answer,
                   errorShown, nQuestions, nAnswered, memBefore, msgsBefore,
                   chainBefore, storeBefore, runKeyMissing>>

\* a step of chain.invoke raises: nothing catches it, neither in the chain
\* (which re-raises before prep_outputs) nor in the script, so the run ends
\* there and the session state is left as it is
ProviderError ==
    /\ pc \in RaisingSteps
    /\ callsInRun' = callsInRun + ProviderCalls(pc)
    /\ stages' = Append(stages, "Failed")
    /\ outcome' = "Failed"
    /\ prevFailed' = TRUE
    /\ memAtFail' = memBefore
    /\ chainAtFail' = chainId
    /\ pc' = "Idle"
    /\ UNCHANGED ingestVars
    /\ UNCHANGED <<secretsKey, envKey, dotenvKey, api_key, hasMessages, messages,
                   hasChain, chainId, storeOpens, memory, prompt, context, answer,
                   errorShown, nQuestions, nAnswered, memBefore, msgsBefore,
                   chainBefore, storeBefore, runKeyMissing>>

Next ==
    \/ \E p \in PromptValues : Rerun(p)
    \/ LoadKey
    \/ CheckKey
    \/ InitSession
    \/ ChatInput
    \/ PrepInputs
    \/ CondenseCall
    \/ Embedding
    \/ Retrieving
    \/ Composing
    \/ ModelCall
    \/ Answered
    \/ ProviderError

----------------------------------------------------------------------------
(* src/ingest.py *)

MaxDocLen == 5

MaxIngestRuns == 2

\* the characters of a document; "n" stands for the newline
Alphabet == {"a", "b", "n"}

Docs == UNION {[1..n -> Alphabet] : n \in 1..MaxDocLen}

\* CharacterTextSplitter's default separator, "\n\n"
Separator == <<"n", "n">>

\* re.split(separator, text): the pieces between the leftmost non-overlapping
\* occurrences of the separator, empty pieces included
RECURSIVE ReSplit(_, _, _)
ReSplit(text, i, cur) ==
    IF i > Len(text) THEN <<cur>>
    ELSE IF i < Len(text) /\ text[i] = "n" /\ text[i + 1] = "n"
           THEN <<cur>> \o ReSplit(text, i + 2, <<>>)
           ELSE ReSplit(text, i + 1, Append(cur, text[i]))

\* _split_text_with_regex with keep_separator=False: the non-empty pieces
SplitTextWithRegex(text) == SelectSeq(ReSplit(text, 1, <<>>), LAMBDA s : s # <<>>)

\* str.strip(): leading and trailing whitespace removed
RECURSIVE LStrip(_)
LStrip(t) == IF t # <<>> /\ Head(t) = "n" THEN LStrip(Tail(t)) ELSE t

RECURSIVE RStrip(_)
RStrip(t) ==
    IF t # <<>> /\ t[Len(t)] = "n" THEN RStrip(SubSeq(t, 1, Len(t) - 1)) ELSE t

Strip(t) == RStrip(LStrip(t))

\* separator.join(docs)
RECURSIVE Join(_)
Join(parts) ==
    IF parts = <<>> THEN <<>>
    ELSE IF Len(parts) = 1 THEN parts[1]
    ELSE parts[1] \o Separator \o Join(Tail(parts))

\* _join_docs: the joined text stripped, None (here <<>>) when it is empty
JoinDocs(parts) == Strip(Join(parts))

SepLen(current) == IF Len(current) > 0 THEN Len(Separator) ELSE 0

\* the inner while loop of _merge_splits: pop pieces from the front of the
\* current chunk until what is left fits the overlap and leaves room for d
RECURSIVE PopFront(_, _, _, _, _)
PopFront(current, total, dlen, size, overlap) ==
    IF total > overlap \/ (total + dlen + SepLen(current) > size /\ total > 0)
      THEN PopFront(Tail(current),
                    total - (Len(current[1])
                             + (IF Len(current) > 1 THEN Len(Separator) ELSE 0)),
                    dlen, size, overlap)
      ELSE [current |-> current, total |-> total]

\* one iteration of the for loop of _merge_splits, on the piece d
MergeStep(st, d, size, overlap) ==
    LET full == st.total + Len(d) + SepLen(st.current) > size
        emit == full /\ Len(st.current) > 0
        joined == JoinDocs(st.current)
        docs1 == IF emit /\ joined # <<>> THEN Append(st.docs, joined) ELSE st.docs
        kept == IF emit
                  THEN PopFront(st.current, st.total, Len(d), size, overlap)
                  ELSE [current |-> st.current, total |-> st.total]
        current1 == Append(kept.current, d)
    IN  [docs |-> docs1,
         current |-> current1,
         total |-> kept.total + Len(d)
                   + (IF Len(current1) > 1 THEN Len(Separator) ELSE 0)]

RECURSIVE MergeLoop(_, _, _, _)
MergeLoop(st, splits, size, overlap) ==
    IF splits = <<>> THEN st
    ELSE MergeLoop(MergeStep(st, Head(splits), size, overlap), Tail(splits),
                   size, overlap)

\* TextSplitter._merge_splits
MergeSplits(splits, size, overlap) ==
    LET st == MergeLoop([docs |-> <<>>, current |-> <<>>, total |-> 0],
                        splits, size, overlap)
        last == JoinDocs(st.current)
    IN  IF last # <<>> THEN Append(st.docs, last) ELSE st.docs

\* CharacterTextSplitter(chunk_size, chunk_overlap).split_text
SplitText(text, size, overlap) ==
    MergeSplits(SplitTextWithRegex(text), size, overlap)

\* Chroma.from_documents: no ids are passed, so every chunk is added to the
\* persisted collection under a fresh uuid
FromDocuments(idx, cs, firstId) ==
    idx \o [i \in 1..Len(cs) |->
              [id |-> firstId + i, text |-> cs[i], source |-> "data/sample.txt"]]

IngestIdle ==
    /\ doc = <<>>
    /\ chunk_size = 1
    /\ chunk_overlap = 0
    /\ chunks = <<>>
    /\ index = <<>>
    /\ nextId = 0
    /\ ingestRuns = 0
    /\ indexAfterFirst = <<>>

\* the document and the splitter's sizes, 0 <= overlap < size <= length
IngestInit ==
    /\ doc \in Docs
    /\ chunk_size \in 1..MaxDocLen
    /\ chunk_size <= Len(doc)
    /\ chunk_overlap \in 0..(chunk_size - 1)
    /\ chunks = <<>>
    /\ index = <<>>
    /\ nextId = 0
    /\ ingestRuns = 0
    /\ indexAfterFirst = <<>>

\* lines 13-43: one run of the ingestion script
ingest_documents ==
    /\ ingestRuns < MaxIngestRuns
    /\ chunks' = SplitText(doc, chunk_size, chunk_overlap)
    /\ index' = FromDocuments(index, chunks', nextId)
    /\ nextId' = nextId + Len(chunks')
    /\ ingestRuns' = ingestRuns + 1
    /\ indexAfterFirst' = IF ingestRuns = 0 THEN index' ELSE indexAfterFirst
    /\ UNCHANGED <<doc, chunk_size, chunk_overlap>>
    /\ UNCHANGED appVars

----------------------------------------------------------------------------
(* Specifications *)

Init == AppInit /\ IngestIdle

Spec == Init /\ [][Next]_vars

\* the chat page never runs: a session in which nothing was typed, any keys
AppIdle ==
    /\ AppInit
    /\ secretsKey = "none" /\ envKey = "none" /\ dotenvKey = "none"

InitIngest == AppIdle /\ IngestInit

NextIngest == ingest_documents

SpecIngest == InitIngest /\ [][NextIngest]_vars

----------------------------------------------------------------------------
(* Properties of the chat session (checked under Spec) *)

ChainStages == {"CondenseCall", "Embedding", "Retrieving", "Composing", "ModelCall"}

\* the last run was a query turn and it is over
TurnOver == pc = "Idle" /\ outcome \in {"Answered", "Failed"}

\* C1: a turn is recorded only once its answer has been obtained, so after any
\* sequence of successful and failed turns the displayed history and the
\* chain's memory hold the same turns in the same order, a failed turn leaving
\* no entry in either.
C1_HistoryEqualsMemory ==
    (pc = "Idle" /\ hasChain) => messages = memory

\* C2: when a provider call of a query turn raises, the memory after the turn
\* is the memory before it: same length, no partial turn.
C2_FailedTurnLeavesMemory ==
    (pc = "Idle" /\ outcome = "Failed") =>
        (Len(memory) = Len(memBefore) /\ memory = memBefore)

\* the answering model call of a follow-up question has failed
C2_Witness ==
    /\ pc = "Idle" /\ outcome = "Failed"
    /\ Len(stages) >= 2 /\ stages[Len(stages) - 1] = "ModelCall"
    /\ Len(memory) >= 2

\* C3: a turn that reaches Answered adds exactly two entries to the memory, the
\* user turn and then the assistant turn; after n answered turns and any
\* number of failed ones the memory holds 2n entries alternating user,
\* assistant.
C3_AnsweredTurnAddsTwo ==
    /\ Len(memory) = 2 * nAnswered
    /\ \A i \in 1..Len(memory) :
         memory[i].role = IF i % 2 = 1 THEN "user" ELSE "assistant"
    /\ pc = "Answered" =>
         memory = memBefore \o <<User(prompt), Assistant(answer)>>

\* the second answered turn, with a failed turn before it
C3_Witness ==
    pc = "Answered" /\ nAnswered = 2 /\ nQuestions = 3

C5_UsableAfterFailure ==
    prevFailed =>
        /\ hasChain /\ chainId = chainAtFail
        /\ memory = memAtFail
        /\ pc \in ChainStages => context = memAtFail
        /\ (pc = "Idle" /\ Truthy(prompt)) => outcome = "Failed"

\* the question after a failed turn has reached the answering call, with the
\* earlier answered turn as its context
C5_Witness ==
    prevFailed /\ pc = "ModelCall" /\ Len(context) >= 2

\* the stage sequences of the claimed fixed order
FixedOrderRuns ==
    { <<"Embedding", "Failed">>,
      <<"Embedding", "Retrieving", "Failed">>,
      <<"Embedding", "Retrieving", "Composing", "ModelCall", "Failed">>,
      <<"Embedding", "Retrieving", "Composing", "ModelCall", "Answered">> }

\* the stage sequences of the chain: with a non-empty chat history the
\* question-condensing model call comes first
ChainRuns(history) ==
    IF history = <<>> THEN FixedOrderRuns
    ELSE { <<"CondenseCall", "Failed">> }
         \cup { <<"CondenseCall">> \o r : r \in FixedOrderRuns }

\* no query is in flight while a run has not yet taken the question
OneQueryInFlight ==
    pc \in {"LoadKey", "CheckKey", "InitSession", "ChatInput", "PrepInputs"}
        => stages = <<>>

C8_AppendOnly ==
    [][ /\ IsPrefix(messages, messages')
        /\ IsPrefix(memory, memory')
        /\ hasMessages => hasMessages'
        /\ hasChain => (hasChain' /\ chainId' = chainId /\ storeOpens' = storeOpens)
      ]_vars

\* a page rerun without a question, after two turns
C8_Witness ==
    /\ pc = "Idle" /\ prompt = None /\ outcome = "NoQuestion"
    /\ Len(messages) >= 4 /\ Len(memory) >= 2 /\ chainId = 1

\* C9: in a run that finds no non-empty OPENAI_API_KEY in the secrets store or
\* the environment the error is shown and the script stops before the chain
\* is created: no store is opened, no question is accepted, no provider call
\* is made.
C9_MissingKeyStops ==
    runKeyMissing =>
        /\ pc \in {"Idle", "LoadKey", "CheckKey"}
        /\ chainId = chainBefore /\ storeOpens = storeBefore
        /\ callsInRun = 0 /\ stages = <<>>
        /\ messages = msgsBefore /\ memory = memBefore
        /\ pc = "Idle" => (errorShown /\ outcome = "ConfigurationError")

\* a question submitted without a key has been stopped
C9_Witness ==
    runKeyMissing /\ pc = "Idle" /\ prompt \in Questions /\ errorShown

----------------------------------------------------------------------------
(* Properties of the ingestion script (checked under SpecIngest) *)

\* C7: ingesting the same unchanged document twice leaves one stored entry
\* per chunk: the index after the second run equals the index after the first.
C7_IngestIdempotent ==
    ingestRuns >= 2 =>
        (index = indexAfterFirst /\ Len(index) = Len(chunks))

Ceil(a, b) == (a + b - 1) \div b

\* every chunk without its first o characters, concatenated
RECURSIVE DropAndJoin(_, _)
DropAndJoin(cs, o) ==
    IF cs = <<>> THEN <<>>
    ELSE SubSeq(cs[1], o + 1, Len(cs[1])) \o DropAndJoin(Tail(cs), o)

\* the first chunk followed by every later chunk without its first o characters
Glue(cs, o) == IF cs = <<>> THEN <<>> ELSE cs[1] \o DropAndJoin(Tail(cs), o)

\* C10: for a document of length N split with 0 <= O < L <= N the ordered
\* chunks cover every character, consecutive chunks share exactly O
\* characters, and there are ceil((N - O) / (L - O)) chunks.
C10_SplitterSlices ==
    ingestRuns >= 1 =>
        /\ Len(chunks) = Ceil(Len(doc) - chunk_overlap, chunk_size - chunk_overlap)
        /\ \A i \in 1..(Len(chunks) - 1) :
             /\ Len(chunks[i]) >= chunk_overlap
             /\ Len(chunks[i + 1]) >= chunk_overlap
             /\ SubSeq(chunks[i], Len(chunks[i]) - chunk_overlap + 1, Len(chunks[i]))
                  = SubSeq(chunks[i + 1], 1, chunk_overlap)
        /\ Glue(chunks, chunk_overlap) = doc

====
